---- MODULE Spec2Model ----
(***************************************************************************)
(* Three independent components of the repository:                         *)
(*   - sentry/integrations/gitlab/blame.py   (SpecBlame, SpecCommit)        *)
(*   - sentry/utils/linksign.py              (SpecLink)                     *)
(*   - sentry/notifications/.../note.py      (SpecNote)                     *)
(* Python's Optional[T] is modelled as a sequence of length <= 1:          *)
(* <<>> is None and <<x>> is the value x.                                  *)
(***************************************************************************)
EXTENDS Integers, Sequences, FiniteSets, TLC

VARIABLES
    \* ---- blame.py: one call of fetch_file_blames ----
    files,      \* the `files` argument: a sequence of SourceLineInfo
    i,          \* the loop index of `for i, file in enumerate(files)` (next to run)
    blames,     \* the local list `blames`
    cache,      \* the client's response cache: file -> Optional[cache entry]
    pc,         \* "running" | "returned" | "raised" | "propagated"
    result,     \* Optional[list]: the value returned to the caller
    log,        \* every call made on the client, in order
    outcome,    \* per processed file: what _fetch_file_blame produced
    \* ---- blame.py: _get_commit_info_from_blame_response as a pure function ----
    response,   \* a blame response: a sequence of hunks' commits
    selected,   \* Optional[CommitInfo]: the function's value
    cpc,        \* "input" | "done"
    \* ---- note.py ----
    text,       \* activity.data["text"], a sequence of characters
    description,\* Optional[tuple]: the value of get_description
    npc,        \* "input" | "done"
    \* ---- linksign.py ----
    now,        \* the clock, in seconds
    ticks,      \* how many times the clock has advanced
    link,       \* Optional: the last link generate_signed_link returned
    genRaised,  \* whether the last generate_signed_link raised RuntimeError
    last        \* Optional: the last request given to process_signature, and its result

blameVars == <<files, i, blames, cache, pc, result, log, outcome>>
commitVars == <<response, selected, cpc>>
noteVars == <<text, description, npc>>
linkVars == <<now, ticks, link, genRaised, last>>
vars == <<blameVars, commitVars, noteVars, linkVars>>

\* ---------------------------------------------------------------- bounds
MaxFiles == 2
MaxHunks == 3
MaxDate == 2
MaxText == 5
MaxTicks == 2

\* ------------------------------------------------------- program constants
MINIMUM_REQUESTS == 100
CACHE_EXPIRY == 60

None == <<>>
Some(x) == <<x>>

\* =========================================================================
\* blame.py: commits
\* =========================================================================

\* A provider datetime string: missing/empty, not ISO-8601, or a wall-clock
\* time with a UTC offset (both in hours): 02:00+02:00 is midnight UTC.
Dates ==
    {[kind |-> "missing", wall |-> 0, off |-> 0], [kind |-> "bad", wall |-> 0, off |-> 0]}
    \cup {[kind |-> "ok", wall |-> w, off |-> o] : w \in 1..MaxDate, o \in {0, 2}}

\* item.get("commit"): absent/empty, or a GitLabCommitResponse. An id of ""
\* stands for a missing or empty id.
GitLabCommitResponse ==
    {[present |-> FALSE, id |-> "", date |-> [kind |-> "missing", wall |-> 0, off |-> 0]]}
    \cup {[present |-> TRUE, id |-> c, date |-> d] : c \in {"", "a", "b"}, d \in Dates}

\* isodate.parse_datetime: an aware datetime, or an exception (None here).
parse_datetime(d) ==
    IF d.kind = "ok" THEN Some([wall |-> d.wall, off |-> d.off]) ELSE None

\* datetime.replace(tzinfo=timezone.utc): the wall-clock fields are kept and
\* the offset is overwritten; no conversion takes place.
replace_tzinfo_utc(dt) == [wall |-> dt.wall, off |-> 0]

\* The instant an aware datetime denotes: what Python compares datetimes by.
Instant(dt) == dt.wall - dt.off

_create_commit_from_blame(commit) ==
    IF ~commit.present THEN None
    ELSE IF commit.id = "" THEN None
    ELSE IF commit.date.kind = "missing" THEN None
    ELSE LET parsed == parse_datetime(commit.date)
         IN  IF parsed = None THEN None
             ELSE Some([commitId |-> commit.id,
                        committedDate |-> replace_tzinfo_utc(parsed[1])])

\* Python's max(seq, key=...): the first element whose key no later one exceeds.
RECURSIVE MaxFrom(_, _, _)
MaxFrom(seq, best, k) ==
    IF k > Len(seq) THEN best
    ELSE IF Instant(seq[k].committedDate) > Instant(best.committedDate)
         THEN MaxFrom(seq, seq[k], k + 1)
         ELSE MaxFrom(seq, best, k + 1)

max_by_committedDate(seq) == MaxFrom(seq, seq[1], 2)

RECURSIVE Flatten(_)
Flatten(opts) ==
    IF opts = <<>> THEN <<>> ELSE Head(opts) \o Flatten(Tail(opts))

_get_commit_info_from_blame_response(resp) ==
    LET commits == [k \in 1..Len(resp) |-> _create_commit_from_blame(resp[k])]
        commits_with_required_info == Flatten(commits)
    IN  IF commits_with_required_info = <<>> THEN None
        ELSE Some(max_by_committedDate(commits_with_required_info))

\* =========================================================================
\* blame.py: fetch_file_blames
\* =========================================================================

\* SourceLineInfo values. Two list positions may name the same file and line.
SourceLineInfo == {"f1", "f2"}

FileLists == UNION {[1..n -> SourceLineInfo] : n \in 0..MaxFiles}

\* Remaining-quota values around the threshold MINIMUM_REQUESTS - len(files).
Remaining ==
    {MINIMUM_REQUESTS - MaxFiles - 1, MINIMUM_REQUESTS - MaxFiles, MINIMUM_REQUESTS}

ValidCommit ==
    [present |-> TRUE, id |-> "a", date |-> [kind |-> "ok", wall |-> 1, off |-> 0]]
NoIdCommit ==
    [present |-> TRUE, id |-> "", date |-> [kind |-> "ok", wall |-> 1, off |-> 0]]
BadDateCommit ==
    [present |-> TRUE, id |-> "b", date |-> [kind |-> "bad", wall |-> 0, off |-> 0]]

\* The hunk lists a provider response carries in this specification.
HunkLists == {<<>>, <<NoIdCommit, BadDateCommit>>, <<ValidCommit>>}

\* What client.get returns: a SequenceApiResponse of hunks, or a response of
\* another class; rl is what the rate-limit headers parse to (Optional).
Responses ==
    {[kind |-> "sequence", hunks |-> h, rl |-> r] :
        h \in HunkLists, r \in {None} \cup {Some(n) : n \in Remaining}}
    \cup {[kind |-> "other", hunks |-> <<>>, rl |-> None]}

\* What one client.get does: returns a response or raises an ApiError.
NetAnswers ==
    {[raises |-> FALSE, resp |-> r, code |-> 0] : r \in Responses}
    \cup {[raises |-> TRUE, resp |-> [kind |-> "other", hunks |-> <<>>, rl |-> None],
           code |-> c] : c \in {429, 500}}

\* client.get_cache_key(request_path, json.dumps(params)): one key per
\* (project, path, ref, lineno), i.e. per SourceLineInfo.
get_cache_key(file) == file

check_cache(c, key) == IF c[key] = None THEN None ELSE Some(c[key][1].value)

set_cache(c, key, value, expiry) ==
    [c EXCEPT ![key] = Some([value |-> value, expiry |-> expiry])]

\* `if response:` on Optional[response]. None is false; a response that is a
\* sequence is false when it is empty, like every Python sequence.
Truthy(cached) ==
    /\ cached # None
    /\ (cached[1].kind = "sequence" => Len(cached[1].hunks) > 0)

\* isinstance(response, SequenceApiResponse)
IsSequenceApiResponse(resp) == resp.kind = "sequence"

get_rate_limit_info_from_response(resp) == resp.rl

Event(op, idx, key, hit, truthy, expiry) ==
    [op |-> op, i |-> idx, key |-> key, hit |-> hit, truthy |-> truthy, expiry |-> expiry]

ApiError(code) == Some([type |-> "ApiError", code |-> code])

\* _fetch_file_blame for the file at index idx, with `net` what client.get
\* would do if it is called. The value: the exception raised (Optional), the
\* returned pair, the cache afterwards and the client calls made.
_fetch_file_blame(c, file, idx, net) ==
    LET cache_key == get_cache_key(file)
        cached    == check_cache(c, cache_key)
        hit       == Truthy(cached)
        ev_check  == Event("check_cache", idx, cache_key, cached # None, hit, 0)
        ev_get    == Event("get", idx, cache_key, FALSE, FALSE, 0)
        ev_set    == Event("set_cache", idx, cache_key, FALSE, FALSE, CACHE_EXPIRY)
        resp      == IF hit THEN cached[1] ELSE net.resp
        c2        == IF hit THEN c ELSE set_cache(c, cache_key, net.resp, CACHE_EXPIRY)
        events    == IF hit THEN <<ev_check>> ELSE <<ev_check, ev_get, ev_set>>
    IN  IF ~hit /\ net.raises
        THEN [exc |-> ApiError(net.code), resp |-> None, commit |-> None, rl |-> None,
              cache |-> c, events |-> <<ev_check, ev_get>>]
        ELSE IF ~IsSequenceApiResponse(resp)
        THEN [exc |-> ApiError(0), resp |-> Some(resp), commit |-> None, rl |-> None,
              cache |-> c2, events |-> events]
        ELSE [exc |-> None, resp |-> Some(resp),
              commit |-> _get_commit_info_from_blame_response(resp.hunks),
              rl |-> get_rate_limit_info_from_response(resp),
              cache |-> c2, events |-> events]

\* FileBlameInfo(**asdict(file), commit=commit)
_create_file_blame_info(commit, file) == [file |-> file, commit |-> commit]

\* Variant: a handler for rate-limit errors only.
CatchesOnly429(exc) == exc.type = "ApiError" /\ exc.code = 429

\* `except ApiError as e`
CatchesApiError(exc) == exc.type = "ApiError"

\* Variant: the check made after every file, not only the first.
RateLimitTooLowAnyIndex(idx, n, rate_limit_info) ==
    /\ n > 1
    /\ rate_limit_info # None
    /\ rate_limit_info[1] < MINIMUM_REQUESTS - n

\* Variant: the threshold one request lower.
RateLimitTooLowOffByOne(idx, n, rate_limit_info) ==
    /\ idx = 0
    /\ n > 1
    /\ rate_limit_info # None
    /\ rate_limit_info[1] < MINIMUM_REQUESTS - n - 1

\* The condition of the `else:` branch of the loop body (lines 58-63).
RateLimitTooLow(idx, n, rate_limit_info) ==
    /\ idx = 0
    /\ n > 1
    /\ rate_limit_info # None
    /\ rate_limit_info[1] < MINIMUM_REQUESTS - n

\* Variant: an entry for every fetched file, resolved or not.
AppendAlways(bs, commit, file) ==
    Append(bs, _create_file_blame_info(
                   IF commit = None
                   THEN [commitId |-> "", committedDate |-> [wall |-> 0, off |-> 0]]
                   ELSE commit[1],
                   file))

\* `if commit: blames.append(_create_file_blame_info(commit, file))`
AppendIfCommit(bs, commit, file) ==
    IF commit # None THEN Append(bs, _create_file_blame_info(commit[1], file)) ELSE bs

\* One iteration of `for i, file in enumerate(files)`.
LoopBody ==
    /\ pc = "running"
    /\ i < Len(files)
    /\ \E net \in NetAnswers :
         LET file == files[i + 1]
             r    == _fetch_file_blame(cache, file, i, net)
         IN  /\ cache' = r.cache
             /\ log' = log \o r.events
             /\ outcome' = Append(outcome, [exc |-> r.exc, resp |-> r.resp,
                                            commit |-> r.commit, rl |-> r.rl])
             /\ result' = result
             /\ IF r.exc # None
                THEN /\ blames' = blames
                     /\ IF CatchesApiError(r.exc[1])
                        THEN i' = i + 1 /\ pc' = pc
                        ELSE i' = i /\ pc' = "propagated"
                ELSE /\ blames' = AppendIfCommit(blames, r.commit, file)
                     /\ IF RateLimitTooLow(i, Len(files), r.rl)
                        THEN i' = i /\ pc' = "raised"
                        ELSE i' = i + 1 /\ pc' = pc
    /\ UNCHANGED <<files, commitVars, noteVars, linkVars>>

\* `return blames`
Return ==
    /\ pc = "running"
    /\ i = Len(files)
    /\ pc' = "returned"
    /\ result' = Some(blames)
    /\ UNCHANGED <<files, i, blames, cache, log, outcome, commitVars, noteVars, linkVars>>

CommitIdle == response = <<>> /\ selected = None /\ cpc = "idle"
NoteIdle == text = <<>> /\ description = None /\ npc = "idle"
LinkIdle == now = 0 /\ ticks = 0 /\ link = None /\ genRaised = FALSE /\ last = None

\* A caller invokes fetch_file_blames(client, files, extra): `blames = []`.
\* The client's cache outlives the call.
Call ==
    /\ pc \in {"idle", "returned", "raised", "propagated"}
    /\ \E fs \in FileLists : files' = fs
    /\ i' = 0 /\ blames' = <<>> /\ pc' = "running" /\ result' = None
    /\ log' = <<>> /\ outcome' = <<>>
    /\ UNCHANGED <<cache, commitVars, noteVars, linkVars>>

\* The cache backend drops an entry whose expiry has passed. Taken between
\* calls only: the expiry of 60 seconds is long against one call's loop.
CacheExpire ==
    /\ pc # "running"
    /\ \E f \in SourceLineInfo :
         /\ cache[f] # None
         /\ cache' = [cache EXCEPT ![f] = None]
    /\ UNCHANGED <<files, i, blames, pc, result, log, outcome, commitVars, noteVars, linkVars>>

InitBlame ==
    /\ files = <<>> /\ i = 0 /\ blames = <<>> /\ pc = "idle" /\ result = None
    /\ cache = [f \in SourceLineInfo |-> None]
    /\ log = <<>> /\ outcome = <<>>
    /\ CommitIdle /\ NoteIdle /\ LinkIdle

NextBlame == Call \/ LoopBody \/ Return \/ CacheExpire

SpecBlame == InitBlame /\ [][NextBlame]_vars

\* ------------------------------------------------------------------ claims
\* The client calls made for the file at index idx.
EventsOf(idx) == SelectSeq(log, LAMBDA e : e.i = idx)

Attempted(idx) == \E k \in 1..Len(log) : log[k].i = idx /\ log[k].op = "check_cache"

FirstFetchOk == Len(outcome) >= 1 /\ outcome[1].exc = None

\* C1: with N > 1 files, when the first file's fetch succeeds and the
\* rate-limit info observed on it has remaining < 100 - N, the call has raised
\* ApiRateLimitedError, no client call was made for any later file and no
\* list was returned.
C1_RaisesBeforeSecondFile ==
    (/\ Len(files) > 1
     /\ FirstFetchOk
     /\ outcome[1].rl # None
     /\ outcome[1].rl[1] < 100 - Len(files))
    => /\ pc = "raised"
       /\ result = None
       /\ Len(outcome) = 1
       /\ \A k \in 1..Len(log) : log[k].i = 0

C1_Witness ==
    /\ pc = "raised"
    /\ Len(files) > 1
    /\ outcome[1].rl # None
    /\ outcome[1].rl[1] < 100 - Len(files)
    /\ Len(log) >= 1

\* C2: an ApiError raised while fetching one file (client.get failing, or a
\* response that is not a sequence) never leaves fetch_file_blames; the file
\* adds no entry; the loop goes on, and a call that returns has attempted
\* every later file.
C2_ApiErrorIsCaught ==
    /\ pc # "propagated"
    /\ Len(blames) =
         Cardinality({k \in 1..Len(outcome) :
                         outcome[k].exc = None /\ outcome[k].commit # None})
    /\ \A k \in 1..Len(outcome) :
         outcome[k].exc # None =>
            /\ pc \in {"running", "returned"}
            /\ i >= k
            /\ (pc = "returned" => \A j \in k..(Len(files) - 1) : Attempted(j))

C2_Witness ==
    /\ pc = "returned"
    /\ Len(files) = 2
    /\ Len(outcome) = 2
    /\ outcome[1].exc # None /\ outcome[1].resp = None
    /\ outcome[2].exc # None /\ outcome[2].resp # None
    /\ result = Some(<<>>)

\* A hunk whose commit carries a non-empty id and a parseable committed date.
ValidHunk(h) == h.present /\ h.id # "" /\ h.date.kind = "ok"

RECURSIVE ResolvedUpTo(_)
ResolvedUpTo(k) ==
    IF k = 0 THEN <<>>
    ELSE IF outcome[k].commit # None
         THEN Append(ResolvedUpTo(k - 1),
                     [file |-> files[k], commit |-> outcome[k].commit[1]])
         ELSE ResolvedUpTo(k - 1)

\* C6: a call that returns normally returns exactly the input-order
\* subsequence of the files a commit was resolved for, at most len(files)
\* entries; an empty input gives [] with no client call; a file whose response
\* has no valid hunk adds no entry and raises nothing.
C6_ResultIsResolvedSubsequence ==
    pc = "returned" =>
        /\ result # None
        /\ Len(outcome) = Len(files)
        /\ result[1] = ResolvedUpTo(Len(files))
        /\ Len(result[1]) <= Len(files)
        /\ (files = <<>> => result[1] = <<>> /\ log = <<>>)
        /\ \A k \in 1..Len(outcome) :
             /\ outcome[k].commit # None =>
                   /\ outcome[k].exc = None
                   /\ \E h \in 1..Len(outcome[k].resp[1].hunks) :
                         ValidHunk(outcome[k].resp[1].hunks[h])
             /\ (/\ outcome[k].resp # None
                 /\ outcome[k].resp[1].kind = "sequence"
                 /\ \A h \in 1..Len(outcome[k].resp[1].hunks) :
                       ~ValidHunk(outcome[k].resp[1].hunks[h]))
                => outcome[k].exc = None /\ outcome[k].commit = None

C6_Witness ==
    /\ pc = "returned"
    /\ Len(files) = 2
    /\ Len(result[1]) = 1
    /\ \E k \in 1..2 :
         /\ outcome[k].exc = None
         /\ outcome[k].resp[1].hunks \in {<<>>, <<NoIdCommit, BadDateCommit>>}

\* C7: for each file the cache is consulted first; when the cache holds a
\* response for the key no GET is issued and the cache is not written; when it
\* holds none exactly one GET is issued and, if it returns, one set_cache with
\* the same key and an expiry of 60 follows.
C7_CacheBeforeHttp ==
    \A idx \in 0..(Len(outcome) - 1) :
        LET es == EventsOf(idx)
        IN  /\ Len(es) >= 1
            /\ es[1].op = "check_cache"
            /\ (es[1].hit => Len(es) = 1)
            /\ (~es[1].hit =>
                  /\ Len(es) >= 2
                  /\ es[2].op = "get"
                  /\ \/ Len(es) = 2 /\ outcome[idx + 1].resp = None
                     \/ /\ Len(es) = 3
                        /\ es[3].op = "set_cache"
                        /\ es[3].key = es[1].key
                        /\ es[3].expiry = 60)

\* What the code does: the same with "the cached response is true in a
\* boolean context" for "the cache holds a response"; a cached response that
\* is an empty sequence is fetched again.
CacheServesOnlyTruthyResponses ==
    \A idx \in 0..(Len(outcome) - 1) :
        LET es == EventsOf(idx)
        IN  /\ Len(es) >= 1
            /\ es[1].op = "check_cache"
            /\ (es[1].truthy => es[1].hit /\ Len(es) = 1)
            /\ (~es[1].truthy =>
                  /\ Len(es) >= 2
                  /\ es[2].op = "get"
                  /\ \/ Len(es) = 2 /\ outcome[idx + 1].resp = None
                     \/ /\ Len(es) = 3
                        /\ es[3].op = "set_cache"
                        /\ es[3].key = es[1].key
                        /\ es[3].expiry = 60)

\* C10: ApiRateLimitedError is raised only right after a successful fetch of
\* the file at index 0 that yielded rate-limit info, with more than one file
\* requested. Otherwise the call never raises it, attempts every file and
\* returns a list, whatever quota later files report.
C10_RaisedOnlyAfterFirstFile ==
    /\ pc = "raised" =>
          /\ i = 0
          /\ Len(outcome) = 1
          /\ outcome[1].exc = None
          /\ outcome[1].rl # None
          /\ Len(files) > 1
    /\ (/\ Len(outcome) >= 1
        /\ (outcome[1].exc # None \/ outcome[1].rl = None \/ Len(files) = 1))
       => /\ pc \in {"running", "returned"}
          /\ (pc = "running" => ENABLED (LoopBody \/ Return))
          /\ (pc = "returned" =>
                /\ result # None
                /\ \A j \in 0..(Len(files) - 1) : Attempted(j))

C10_Witness ==
    /\ pc = "returned"
    /\ Len(files) > 1
    /\ outcome[1].exc # None
    /\ \E k \in 2..Len(outcome) :
         /\ outcome[k].exc = None
         /\ outcome[k].rl # None
         /\ outcome[k].rl[1] < 100 - Len(files)

\* =========================================================================
\* blame.py: _get_commit_info_from_blame_response on every bounded response
\* =========================================================================

BlameIdle ==
    /\ files = <<>> /\ i = 0 /\ blames = <<>> /\ pc = "idle" /\ result = None
    /\ cache = [f \in SourceLineInfo |-> None]
    /\ log = <<>> /\ outcome = <<>>

BlameResponses == UNION {[1..n -> GitLabCommitResponse] : n \in 0..MaxHunks}

InitCommit ==
    /\ response \in BlameResponses
    /\ selected = None /\ cpc = "input"
    /\ BlameIdle /\ NoteIdle /\ LinkIdle

SelectCommit ==
    /\ cpc = "input"
    /\ selected' = _get_commit_info_from_blame_response(response)
    /\ cpc' = "done"
    /\ UNCHANGED <<response, blameVars, noteVars, linkVars>>

NextCommit == SelectCommit

SpecCommit == InitCommit /\ [][NextCommit]_vars

ValidIndices == {k \in 1..Len(response) : ValidHunk(response[k])}

\* The committed timestamp of the commit of hunk k: the instant its
\* committed_date denotes.
CommittedTimestamp(k) == response[k].date.wall - response[k].date.off

\* The committedDate of the CommitInfo built from hunk k, as an instant: the
\* date's wall-clock reading, labelled UTC.
CommittedDate(k) == response[k].date.wall

\* C5: the selected commit is a valid commit of the response whose committed
\* timestamp no other valid commit exceeds, and the first such commit in
\* response order; no valid commit, no selection.
C5_LatestValidCommitFirstOfTies ==
    cpc = "done" =>
        IF ValidIndices = {} THEN selected = None
        ELSE /\ selected # None
             /\ \E k \in ValidIndices :
                  /\ selected[1].commitId = response[k].id
                  /\ selected[1].committedDate = [wall |-> response[k].date.wall, off |-> 0]
                  /\ \A j \in ValidIndices : CommittedTimestamp(j) <= CommittedTimestamp(k)
                  /\ \A j \in ValidIndices : j < k => CommittedTimestamp(j) < CommittedTimestamp(k)

\* What the code does: the same with the committedDate of the CommitInfo,
\* which keeps the wall-clock reading and drops the UTC offset, for the
\* committed timestamp. The two agree on responses whose dates share one offset.
SelectsFirstGreatestCommittedDate ==
    cpc = "done" =>
        IF ValidIndices = {} THEN selected = None
        ELSE /\ selected # None
             /\ \E k \in ValidIndices :
                  /\ selected[1].commitId = response[k].id
                  /\ selected[1].committedDate = [wall |-> response[k].date.wall, off |-> 0]
                  /\ \A j \in ValidIndices : CommittedDate(j) <= CommittedDate(k)
                  /\ \A j \in ValidIndices : j < k => CommittedDate(j) < CommittedDate(k)

SameOffsetResponse ==
    \A j, k \in ValidIndices : response[j].date.off = response[k].date.off

LatestValidCommitWhenOffsetsAgree ==
    SameOffsetResponse => C5_LatestValidCommitFirstOfTies

\* =========================================================================
\* note.py: NoteActivityNotification.get_description
\* =========================================================================

Chars == {"{", "}", "a"}

Texts == UNION {[1..n -> Chars] : n \in 0..MaxText}

\* str.replace(old, new) for a one-character `old`: left to right, every
\* occurrence, the replacement text is not rescanned.
RECURSIVE str_replace(_, _, _)
str_replace(s, old, new) ==
    IF s = <<>> THEN <<>>
    ELSE (IF Head(s) = old THEN new ELSE <<Head(s)>>) \o str_replace(Tail(s), old, new)

\* Variant: only the opening brace escaped.
get_description_open_only(t) ==
    <<str_replace(t, "{", <<"{", "{">>), None, {}>>

\* str(self.activity.data["text"]).replace("{", "{{").replace("}", "}}"), None, {}
get_description(t) ==
    <<str_replace(str_replace(t, "{", <<"{", "{">>), "}", <<"}", "}">>), None, {}>>

InitNote ==
    /\ text \in Texts
    /\ description = None /\ npc = "input"
    /\ BlameIdle /\ CommitIdle /\ LinkIdle

GetDescription ==
    /\ npc = "input"
    /\ description' = Some(get_description(text))
    /\ npc' = "done"
    /\ UNCHANGED <<text, blameVars, commitVars, linkVars>>

NextNote == GetDescription

SpecNote == InitNote /\ [][NextNote]_vars

IsBrace(c) == c \in {"{", "}"}

\* Where character k of the text starts in the description: every brace
\* before it takes one more place.
Position(k) == k + Cardinality({j \in 1..(k - 1) : IsBrace(text[j])})

\* C8: get_description returns (description, None, {}); the description is
\* the text with each brace written twice, once for each original brace, and
\* every other character unchanged and in order.
C8_BracesDoubledOnce ==
    npc = "done" =>
        LET d == description[1][1]
        IN  /\ Len(description[1]) = 3
            /\ description[1][2] = None
            /\ description[1][3] = {}
            /\ Len(d) = Position(Len(text) + 1) - 1
            /\ \A k \in 1..Len(text) :
                 /\ d[Position(k)] = text[k]
                 /\ IsBrace(text[k]) => d[Position(k) + 1] = text[k]

C8_Witness ==
    /\ npc = "done"
    /\ text = <<"{", "a", "}", "}">>
    /\ description[1][1] = <<"{", "{", "a", "}", "}", "}", "}">>

\* =========================================================================
\* linksign.py
\* =========================================================================
\* A string is a sequence of tokens: characters, and two opaque tokens for
\* what django.core.signing writes, neither holding ':' nor '|': the base62
\* timestamp and the base64 MAC. The MAC token of a value holds the value it
\* authenticates, so two MACs are equal exactly when the signed values are.

Ch(c) == [t |-> "c", c |-> c, n |-> 0, m |-> <<>>]
TsTok(n) == [t |-> "ts", c |-> "", n |-> n, m |-> <<>>]
MacTok(v) == [t |-> "mac", c |-> "", n |-> 0, m |-> v]

Str(cs) == [k \in 1..Len(cs) |-> Ch(cs[k])]

\* s.count(sep)
Count(s, sep) == Cardinality({k \in 1..Len(s) : s[k] = sep})

LastIndex(s, sep) ==
    LET ks == {k \in 1..Len(s) : s[k] = sep}
    IN  IF ks = {} THEN 0 ELSE CHOOSE k \in ks : \A j \in ks : j <= k

\* s.rsplit(sep, maxsplit): the list of pieces, split from the right.
RECURSIVE rsplit(_, _, _)
rsplit(s, sep, maxsplit) ==
    LET k == LastIndex(s, sep)
    IN  IF maxsplit = 0 \/ k = 0 THEN <<s>>
        ELSE Append(rsplit(SubSeq(s, 1, k - 1), sep, maxsplit - 1),
                    SubSeq(s, k + 1, Len(s)))

\* sep.join(pieces)
RECURSIVE join(_, _)
join(sep, pieces) ==
    IF pieces = <<>> THEN <<>>
    ELSE IF Len(pieces) = 1 THEN pieces[1]
    ELSE pieces[1] \o <<sep>> \o join(sep, Tail(pieces))

\* sentry.utils.numbers: base 36 over 0-9A-Z.
BASE36_ALPHABET ==
    <<"0", "1", "2", "3", "4", "5", "6", "7", "8", "9", "A", "B", "C", "D", "E",
      "F", "G", "H", "I", "J", "K", "L", "M", "N", "O", "P", "Q", "R", "S", "T",
      "U", "V", "W", "X", "Y", "Z">>

RECURSIVE base36_digits(_)
base36_digits(n) ==
    IF n = 0 THEN <<>>
    ELSE Append(base36_digits(n \div Len(BASE36_ALPHABET)),
                Ch(BASE36_ALPHABET[(n % Len(BASE36_ALPHABET)) + 1]))

base36_encode(n) == IF n = 0 THEN <<Ch("0")>> ELSE base36_digits(n)

DigitValue(tok) ==
    CHOOSE d \in 0..(Len(BASE36_ALPHABET) - 1) : Ch(BASE36_ALPHABET[d + 1]) = tok

IsDigit(tok) == \E d \in 1..Len(BASE36_ALPHABET) : Ch(BASE36_ALPHABET[d]) = tok

RECURSIVE base36_value(_)
base36_value(s) ==
    IF s = <<>> THEN 0
    ELSE base36_value(SubSeq(s, 1, Len(s) - 1)) * Len(BASE36_ALPHABET)
         + DigitValue(s[Len(s)])

\* The number, or None where the code raises ValueError.
base36_decode(s) ==
    IF s # <<>> /\ \A k \in 1..Len(s) : IsDigit(s[k]) THEN Some(base36_value(s)) ELSE None

\* signing.TimestampSigner(salt="sentry-link-signature").sign(value) at time t:
\* value:timestamp:mac, the MAC taken over value:timestamp.
sign(value, t) ==
    LET stamped == value \o <<Ch(":"), TsTok(t)>>
    IN  stamped \o <<Ch(":"), MacTok(stamped)>>

\* TimestampSigner.unsign(signed, max_age) at time t: the value, or None
\* where it raises BadSignature (SignatureExpired is a BadSignature).
unsign(signed, max_age, t) ==
    IF Count(signed, Ch(":")) = 0 THEN None
    ELSE LET p == rsplit(signed, Ch(":"), 1)
         IN  IF p[2] # <<MacTok(p[1])>> THEN None
             ELSE LET q == rsplit(p[1], Ch(":"), 1)
                  IN  IF t - q[2][1].n > max_age THEN None ELSE Some(q[1])

\* options.get("system.url-prefix")
system_url_prefix == Str(<<"h", ":", "/", "/", "s">>)

\* region.to_url(path)
region_to_url(path) == Str(<<"h", ":", "/", "/", "r">>) \o path

\* The paths reverse() returns for the routes of this model. reverse()
\* percent-encodes every character outside the RFC 3986 path characters, so a
\* path holds ':' as it is and never a '|'.
Paths == {Str(<<"/", "a", "/">>), Str(<<"/", "a", ":", "b", "/">>)}

UserIds == {1, 36, 47}

\* The `user` argument: a user id, or an object with is_authenticated.
UserArgs ==
    {[object |-> FALSE, is_authenticated |-> FALSE, id |-> u] : u \in UserIds}
    \cup {[object |-> TRUE, is_authenticated |-> a, id |-> u] : a \in BOOLEAN, u \in UserIds}

Referrers == {None, Some(Str(<<"m">>))}

\* ":".join(get_signer().sign(item).rsplit(":", 2)[1:])
signature_of(item, t) == join(Ch(":"), Tail(rsplit(sign(item, t), Ch(":"), 2)))

\* Variant: the id and the path in the other order.
item_of_id_before_path(path, user_id) ==
    system_url_prefix \o <<Ch("|")>> \o base36_encode(user_id) \o <<Ch("|")>> \o path

\* "{}|{}|{}".format(options.get("system.url-prefix"), path, base36_encode(user_id))
item_of(path, user_id) ==
    system_url_prefix \o <<Ch("|")>> \o path \o <<Ch("|")>> \o base36_encode(user_id)

\* generate_signed_link for an acceptable user at time t: the URL, as its
\* address, its path and its query parameters in order.
generate_signed_link(user_id, path, referrer, t) ==
    LET signature == signature_of(item_of(path, user_id), t)
        underscore == [name |-> "_",
                       value |-> base36_encode(user_id) \o <<Ch(":")>> \o signature]
    IN  [url |-> region_to_url(path),
         path |-> path,
         query |-> IF referrer = None THEN <<underscore>>
                   ELSE <<underscore, [name |-> "referrer", value |-> referrer[1]]>>]

\* request.GET.get("_")
find_signature(request) ==
    LET ks == {k \in 1..Len(request.query) : request.query[k].name = "_"}
    IN  IF ks = {} THEN None
        ELSE Some(request.query[CHOOSE k \in ks : \A j \in ks : j <= k].value)

\* user_service.get_user(user_id=...)
get_user(user_id) == Some([id |-> user_id])

\* Variant: one ':' (two segments) is enough.
RejectedUnverifiedOneColon(sig) == sig = <<>> \/ Count(sig, Ch(":")) < 1

\* `not sig or sig.count(":") < 2`, for a sig that is not None
RejectedUnverified(sig) == sig = <<>> \/ Count(sig, Ch(":")) < 2

\* Variant: the call without its max_age argument (no age at time t exceeds t).
unsign_call_without_max_age(signed_data, max_age, t) == unsign(signed_data, t, t)

\* get_signer().unsign(signed_data, max_age=max_age)
unsign_call(signed_data, max_age, t) == unsign(signed_data, max_age, t)

Answer(user, verified, looked_up) ==
    [user |-> user, unsign_called |-> verified, get_user_called |-> looked_up]

\* process_signature(request, max_age) at time t.
process_signature(request, max_age, t) ==
    LET sig == find_signature(request)
    IN  IF sig = None \/ RejectedUnverified(sig[1]) THEN Answer(None, FALSE, FALSE)
        ELSE
        LET signed_data ==
                system_url_prefix \o <<Ch("|")>> \o request.path \o <<Ch("|")>> \o sig[1]
            data == unsign_call(signed_data, max_age, t)
        IN  IF data = None THEN Answer(None, TRUE, FALSE)
            ELSE
            LET parts == rsplit(data[1], Ch("|"), 2)
                signed_path == parts[2]
                user_id == parts[3]
            IN  IF signed_path # request.path THEN Answer(None, TRUE, FALSE)
                ELSE IF base36_decode(user_id) = None THEN Answer(None, TRUE, FALSE)
                ELSE Answer(get_user(base36_decode(user_id)[1]), TRUE, TRUE)

\* The default of process_signature's max_age, in seconds.
DEFAULT_MAX_AGE == 60 * 60 * 24 * 10

MaxAges == {1, DEFAULT_MAX_AGE}

\* generate_signed_link(user, viewname, referrer, args, kwargs), the clock at
\* `now`; reverse(viewname, args, kwargs) gives the path.
GenerateSignedLink ==
    /\ \E user \in UserArgs, path \in Paths, referrer \in Referrers :
         IF user.object /\ ~user.is_authenticated
         THEN /\ genRaised' = TRUE
              /\ link' = None
         ELSE /\ genRaised' = FALSE
              /\ link' = Some([user_id |-> user.id, path |-> path, t |-> now,
                               url |-> generate_signed_link(user.id, path, referrer, now)])
    /\ last' = None
    /\ UNCHANGED <<now, ticks, blameVars, commitVars, noteVars>>

\* Time passes: a second, or the default max_age.
Tick ==
    /\ ticks < MaxTicks
    /\ \E d \in {1, DEFAULT_MAX_AGE} : now' = now + d
    /\ ticks' = ticks + 1
    /\ UNCHANGED <<link, genRaised, last, blameVars, commitVars, noteVars>>

Underscore(value) == [name |-> "_", value |-> value]

\* The requests a holder of link l may send at time t: the link's own URL,
\* and that URL with its `_` parameter or its path changed. A holder cannot
\* compute a MAC but may hold other links this installation signed.
RequestsOf(l, t) ==
    LET own  == l.url.query[1].value
        segs == rsplit(own, Ch(":"), 2)
        uid  == segs[1]
        ts   == <<TsTok(l.t)>>
        mac  == segs[Len(segs)]
        colon == <<Ch(":")>>
        rest == Tail(l.url.query)
        others == {generate_signed_link(x[1], x[2], None, t2) :
                     x \in {y \in UserIds \X Paths : y # <<l.user_id, l.path>>},
                     t2 \in {l.t, t}}
    IN  {[how |-> "exact", path |-> l.url.path, query |-> l.url.query],
         [how |-> "no_underscore", path |-> l.url.path, query |-> rest],
         [how |-> "empty", path |-> l.url.path, query |-> <<Underscore(<<>>)>> \o rest],
         [how |-> "one_segment", path |-> l.url.path, query |-> <<Underscore(uid)>> \o rest],
         [how |-> "two_segments", path |-> l.url.path,
          query |-> <<Underscore(uid \o colon \o mac)>> \o rest],
         [how |-> "four_segments", path |-> l.url.path,
          query |-> <<Underscore(uid \o colon \o own)>> \o rest],
         [how |-> "forged_mac", path |-> l.url.path,
          query |-> <<Underscore(uid \o colon \o ts \o colon \o <<MacTok(<<>>)>>)>> \o rest]}
        \cup {[how |-> "refreshed_timestamp", path |-> l.url.path,
               query |-> <<Underscore(uid \o colon \o <<TsTok(t)>> \o colon \o mac)>> \o rest] :
                 x \in {y \in {t} : y # l.t}}
        \cup {[how |-> "signature_of_other_link", path |-> l.url.path,
               query |-> <<Underscore(uid \o colon
                              \o join(Ch(":"), Tail(rsplit(o.query[1].value, Ch(":"), 2))))>>
                         \o rest] :
                 o \in others}
        \cup {[how |-> "other_user", path |-> l.url.path,
               query |-> <<Underscore(base36_encode(u) \o colon \o ts \o colon \o mac)>> \o rest] :
                 u \in UserIds \ {l.user_id}}
        \cup {[how |-> "other_path", path |-> p, query |-> l.url.query] :
                 p \in Paths \ {l.path}}

\* A request arrives and the view calls process_signature(request, max_age).
ProcessSignature ==
    /\ link # None
    /\ \E request \in RequestsOf(link[1], now), max_age \in MaxAges :
         last' = Some([how |-> request.how, from |-> link[1],
                       request |-> [path |-> request.path, query |-> request.query],
                       max_age |-> max_age, at |-> now,
                       answer |-> process_signature(request, max_age, now)])
    /\ UNCHANGED <<now, ticks, link, genRaised, blameVars, commitVars, noteVars>>

InitLink ==
    /\ now = 0 /\ ticks = 0 /\ link = None /\ genRaised = FALSE /\ last = None
    /\ BlameIdle /\ CommitIdle /\ NoteIdle

NextLink == GenerateSignedLink \/ Tick \/ ProcessSignature

SpecLink == InitLink /\ [][NextLink]_vars

\* ------------------------------------------------------------------ claims
Age == last[1].at - last[1].from.t

\* C3: a request with the path and the `_` parameter of the URL that
\* generate_signed_link returned, processed under the same url-prefix no
\* later than max_age after signing, resolves to the user with the original id.
C3_RoundTrip ==
    (last # None /\ last[1].how = "exact" /\ Age <= last[1].max_age)
    => /\ last[1].answer.get_user_called
       /\ last[1].answer.user = Some([id |-> last[1].from.user_id])

C3_Witness ==
    /\ last # None
    /\ last[1].how = "exact"
    /\ Age = DEFAULT_MAX_AGE
    /\ last[1].max_age = DEFAULT_MAX_AGE
    /\ last[1].from.user_id = 47
    /\ Len(last[1].from.url.query) = 2
    /\ Count(last[1].from.path, Ch(":")) = 1
    /\ last[1].answer.user = Some([id |-> 47])

\* C4: process_signature returns None, without calling the user lookup, when
\* the signature part of `_` was altered, when the timestamp is older than
\* max_age, and when the request path is not the path the link was signed for.
C4_InvalidLinkGivesNone ==
    (/\ last # None
     /\ \/ last[1].how \in {"forged_mac", "refreshed_timestamp", "signature_of_other_link"}
        \/ last[1].how = "other_path"
        \/ last[1].how = "exact" /\ Age > last[1].max_age)
    => /\ last[1].answer.user = None
       /\ ~last[1].answer.get_user_called

C4_Witness ==
    /\ last # None
    /\ last[1].how = "exact"
    /\ Age = DEFAULT_MAX_AGE + 1
    /\ last[1].max_age = DEFAULT_MAX_AGE
    /\ last[1].answer = Answer(None, TRUE, FALSE)

LastSig == find_signature(last[1].request)

\* The ':'-delimited segments of a string: one more than its ':' characters.
Segments(sig) == Count(sig, Ch(":")) + 1

\* C9 as stated: a missing `_` or one with fewer than two ':'-delimited
\* segments returns None unverified, and every `_` with at least two segments
\* goes on to the verification of MAC and timestamp.
C9_TwoSegmentsAreVerified ==
    last # None =>
        /\ (LastSig = None \/ Segments(LastSig[1]) < 2)
              => last[1].answer = Answer(None, FALSE, FALSE)
        /\ (LastSig # None /\ Segments(LastSig[1]) >= 2)
              => last[1].answer.unsign_called

\* C9 as the code has it: a missing or empty `_` or one with fewer than two
\* ':' characters (fewer than three segments) returns None unverified, and
\* every `_` with at least three segments goes on to the verification.
C9_ThreeSegmentsAreVerified ==
    last # None =>
        /\ (LastSig = None \/ LastSig[1] = <<>> \/ Segments(LastSig[1]) < 3)
              => last[1].answer = Answer(None, FALSE, FALSE)
        /\ (LastSig # None /\ Segments(LastSig[1]) >= 3)
              => last[1].answer.unsign_called

C9_Witness ==
    /\ last # None
    /\ last[1].how = "two_segments"
    /\ Segments(LastSig[1]) = 2
    /\ last[1].answer = Answer(None, FALSE, FALSE)

====
